---- MODULE Spec2Model ----
(***************************************************************************)
(* DocChunker: the chunk-and-metadata pipeline.                            *)
(*                                                                         *)
(* Text is a sequence of one-character strings.  The pure functions of the *)
(* repository (chunker, heading and keyword heuristics, formatter) are     *)
(* operators on such sequences; the front-ends are a state machine.        *)
(***************************************************************************)
EXTENDS Integers, Sequences, FiniteSets, TLC

VARIABLES
    pc,            \* position of the running handler / function under study
    text,          \* the text in hand (extracted text, or the function input)
    chunk_size,    \* the chunk size in hand
    chunks,        \* the chunker's result
    max_keywords_arg,  \* extract_keywords' max_keywords argument
    metadata,      \* the metadata dict in hand
    md_content,    \* the rendered document in hand
    result,        \* result of the pure function under study
    frontend,      \* which front-end runs: "main", "app", "app_llm", "gradio"
    llm_enabled,   \* the LLM checkbox
    export_folder, \* whether an export folder is given (app, app_llm)
    files,         \* files_to_process, in order
    fi,            \* index in files of the file in hand
    idx,           \* 1-based number of the chunk in hand
    llm_meta,      \* the fields enrich_metadata has obtained so far
    faults,        \* how many failures the environment has injected
    output_files,  \* the (out_name, md_content) pairs produced, in order (main.py:
                   \* the out_file / md_content pairs it writes)
    exported,      \* the files written: set of <<name, content>>
    messages,      \* what the front-end has shown or printed
    requests,      \* the LLM requests issued: <<file index, chunk, field, outcome>>
    chunker_calls, \* the chunk sizes chunk_text_by_words was called with
    report,        \* the final report of the run
    events         \* history: the steps taken so far, <<step, file index, chunk>>

pure_vars == <<text, chunk_size, chunks, max_keywords_arg, metadata, md_content, result>>
run_vars == <<frontend, llm_enabled, export_folder, files, fi, idx, llm_meta, faults,
              output_files, exported, messages, requests, chunker_calls, report,
              events>>
vars == <<pc, pure_vars, run_vars>>

-----------------------------------------------------------------------------
(* Bounds of the model *)

MaxTextLen == 5      \* longest input text of the chunker specification
MaxChunkSize == 3    \* largest chunk size of the chunker specification
MaxHeadingLen == 5   \* longest chunk of the heading specification
MaxWords == 4        \* most words of a text of the keyword specification
MaxKeywords == 2     \* largest max_keywords of the keyword specification
MaxValueLen == 3     \* longest enriched value of the formatter specification
MaxBodyLines == 2    \* most lines of a chunk of the formatter specification
MaxFiles == 2        \* most files of a batch
MaxFaults == 1       \* most failures the environment injects in a run
MaxPatternLen == 2   \* longest pattern a chunk for a prompt repeats
MaxOver == 1         \* most characters a chunk for a prompt is over the limit

-----------------------------------------------------------------------------
(* config.py and the chunk-size widgets *)

DEFAULT_CHUNK_SIZE == 500

\* st.number_input(..., min_value=50, max_value=2000, ...)
MIN_CHUNK_SIZE == 50
MAX_CHUNK_SIZE == 2000

-----------------------------------------------------------------------------
(* Strings *)

RECURSIVE SeqsUpTo(_, _)
SeqsUpTo(S, n) ==
    IF n = 0 THEN {<<>>}
    ELSE LET shorter == SeqsUpTo(S, n - 1)
         IN  shorter \cup {Append(s, c) : s \in {t \in shorter : Len(t) = n - 1}, c \in S}

\* the concatenation of ss[lo..hi], by halves
RECURSIVE FlattenRange(_, _, _)
FlattenRange(ss, lo, hi) ==
    IF lo > hi THEN <<>>
    ELSE IF lo = hi THEN ss[lo]
    ELSE LET mid == (lo + hi) \div 2
         IN  FlattenRange(ss, lo, mid) \o FlattenRange(ss, mid + 1, hi)

Flatten(ss) == FlattenRange(ss, 1, Len(ss))

\* Python's str.isspace / regex \s, on the characters of the model
IsSpace(c) == c \in {" ", "\n", "\t", "\r"}

RECURSIVE ScanNonSpace(_, _)
ScanNonSpace(s, i) ==
    IF i <= Len(s) /\ ~IsSpace(s[i]) THEN ScanNonSpace(s, i + 1) ELSE i

RECURSIVE ScanSpace(_, _)
ScanSpace(s, i) ==
    IF i <= Len(s) /\ IsSpace(s[i]) THEN ScanSpace(s, i + 1) ELSE i

RECURSIVE ScanSpaceBack(_, _)
ScanSpaceBack(s, j) ==
    IF j >= 1 /\ IsSpace(s[j]) THEN ScanSpaceBack(s, j - 1) ELSE j

\* str.strip()
strip(s) ==
    LET i == ScanSpace(s, 1)
        j == ScanSpaceBack(s, Len(s))
    IN  IF i > j THEN <<>> ELSE SubSeq(s, i, j)

\* a word starts at i
IsWordStart(s, i) == ~IsSpace(s[i]) /\ (i = 1 \/ IsSpace(s[i - 1]))

\* str.split(): the maximal runs of non-whitespace characters; those that
\* start in lo..hi, in order (the range is halved)
RECURSIVE split_range(_, _, _)
split_range(s, lo, hi) ==
    IF lo > hi THEN <<>>
    ELSE IF lo = hi
    THEN IF IsWordStart(s, lo) THEN <<SubSeq(s, lo, ScanNonSpace(s, lo) - 1)>> ELSE <<>>
    ELSE LET mid == (lo + hi) \div 2
         IN  split_range(s, lo, mid) \o split_range(s, mid + 1, hi)

split(s) == split_range(s, 1, Len(s))

-----------------------------------------------------------------------------
(* chunkers/word_chunker.py *)

\* re.findall(r'\S+\s*', text): each word with the whitespace run after it;
\* the matches that start in lo..hi, in order (the range is halved)
RECURSIVE findall_words_range(_, _, _)
findall_words_range(s, lo, hi) ==
    IF lo > hi THEN <<>>
    ELSE IF lo = hi
    THEN IF IsWordStart(s, lo)
         THEN <<SubSeq(s, lo, ScanSpace(s, ScanNonSpace(s, lo)) - 1)>>
         ELSE <<>>
    ELSE LET mid == (lo + hi) \div 2
         IN  findall_words_range(s, lo, mid) \o findall_words_range(s, mid + 1, hi)

findall_words(s) == findall_words_range(s, 1, Len(s))

\* range(0, n, step) raises ValueError for step = 0
range_raises(step) == step = 0

\* range(0, n, step), step # 0
RECURSIVE range_from(_, _, _)
range_from(i, n, step) ==
    IF step < 0 \/ i >= n THEN <<>> ELSE <<i>> \o range_from(i + step, n, step)

Min(a, b) == IF a <= b THEN a ELSE b

\* words[i:i+chunk_size] for 0-based i and chunk_size > 0
slice(words, i, size) == SubSeq(words, i + 1, Min(i + size, Len(words)))

\* off by one: words[i:i+chunk_size-1]
chunk_text_by_words_short(s, size) ==
    LET words == findall_words(s)
        starts == range_from(0, Len(words), size)
    IN  [n \in 1..Len(starts) |-> strip(Flatten(slice(words, starts[n], size - 1)))]

\* range(0, max(len(words), 1), chunk_size): one empty chunk for empty text
chunk_text_by_words_one_empty(s, size) ==
    LET words == findall_words(s)
        starts == range_from(0, IF Len(words) = 0 THEN 1 ELSE Len(words), size)
    IN  [n \in 1..Len(starts) |-> strip(Flatten(slice(words, starts[n], size)))]

\* words[i:i+chunk_size+1]: chunks overlap by one word
chunk_text_by_words_overlap(s, size) ==
    LET words == findall_words(s)
        starts == range_from(0, Len(words), size)
    IN  [n \in 1..Len(starts) |-> strip(Flatten(slice(words, starts[n], size + 1)))]

chunk_text_by_words(s, size) ==
    LET words == findall_words(s)
        starts == range_from(0, Len(words), size)
    IN  [n \in 1..Len(starts) |-> strip(Flatten(slice(words, starts[n], size)))]

-----------------------------------------------------------------------------
(* metadata/metadata_extractor.py *)

\* Python's None
None == <<"<None>">>

UpperLetters == <<"A","B","C","D","E","F","G","H","I","J","K","L","M",
                  "N","O","P","Q","R","S","T","U","V","W","X","Y","Z">>
LowerLetters == <<"a","b","c","d","e","f","g","h","i","j","k","l","m",
                  "n","o","p","q","r","s","t","u","v","w","x","y","z">>
DigitChars == <<"0","1","2","3","4","5","6","7","8","9">>

SeqRange(s) == {s[i] : i \in 1..Len(s)}

UpperSet == SeqRange(UpperLetters)
LowerSet == SeqRange(LowerLetters)
DigitSet == SeqRange(DigitChars)

IsUpperLetter(c) == c \in UpperSet
IsLowerLetter(c) == c \in LowerSet
IsDigit(c) == c \in DigitSet
IsAlnum(c) == IsUpperLetter(c) \/ IsLowerLetter(c) \/ IsDigit(c)

\* regex \w: letters, digits and the underscore
IsWordChar(c) == IsAlnum(c) \/ c = "_"

\* str.lower(), one character
LowerMap ==
    [c \in UpperSet |->
        LowerLetters[CHOOSE i \in 1..Len(UpperLetters) : UpperLetters[i] = c]]

LowerChar(c) == IF IsUpperLetter(c) THEN LowerMap[c] ELSE c

lower(s) == [i \in 1..Len(s) |-> LowerChar(s[i])]

\* the position of the next line break at or after p, or Len(s) + 1
RECURSIVE ScanToBreak(_, _)
ScanToBreak(s, p) == IF p <= Len(s) /\ s[p] # "\n" THEN ScanToBreak(s, p + 1) ELSE p

\* str.splitlines(), on the line break of the model: the lines that start
\* in lo..hi, in order (the range is halved)
RECURSIVE splitlines_range(_, _, _)
splitlines_range(s, lo, hi) ==
    IF lo > hi THEN <<>>
    ELSE IF lo = hi
    THEN IF lo = 1 \/ s[lo - 1] = "\n"
         THEN <<SubSeq(s, lo, ScanToBreak(s, lo) - 1)>>
         ELSE <<>>
    ELSE LET mid == (lo + hi) \div 2
         IN  splitlines_range(s, lo, mid) \o splitlines_range(s, mid + 1, hi)

splitlines(s) == splitlines_range(s, 1, Len(s))

SelectSeqNonEmpty(ss) == SelectSeq(ss, LAMBDA x : x # <<>>)

\* [line.strip() for line in text.splitlines() if line.strip()]
stripped_lines(s) ==
    LET ls == splitlines(s)
    IN  SelectSeqNonEmpty([i \in 1..Len(ls) |-> strip(ls[i])])

\* str.isupper(): at least one cased character, and no lower-case one
isupper(s) ==
    /\ \E i \in 1..Len(s) : IsUpperLetter(s[i])
    /\ \A i \in 1..Len(s) : ~IsLowerLetter(s[i])

\* [a-z]* from position i: the position after the run
RECURSIVE ScanLower(_, _)
ScanLower(s, i) ==
    IF i <= Len(s) /\ IsLowerLetter(s[i]) THEN ScanLower(s, i + 1) ELSE i

\* re.match(r'^[A-Z][a-z]+( [A-Z][a-z]+)*$', s), matching from position i
RECURSIVE match_title_from(_, _)
match_title_from(s, i) ==
    /\ i + 1 <= Len(s)
    /\ IsUpperLetter(s[i])
    /\ IsLowerLetter(s[i + 1])
    /\ LET j == ScanLower(s, i + 1)
       IN  \/ j = Len(s) + 1
           \/ /\ j <= Len(s)
              /\ s[j] = " "
              /\ match_title_from(s, j + 1)

match_title(s) == match_title_from(s, 1)

\* only the Title-Case pattern is tried
extract_heading_title_only(s) ==
    LET lines == stripped_lines(s)
    IN  IF lines = <<>> THEN None
        ELSE IF match_title(lines[1]) THEN lines[1]
        ELSE None

extract_heading(s) ==
    LET lines == stripped_lines(s)
    IN  IF lines = <<>> THEN None
        ELSE IF isupper(lines[1]) \/ match_title(lines[1]) THEN lines[1]
        ELSE None

\* re.findall(r'\b\w{5,}\b', s): the maximal runs of word characters of
\* length 5 or more
RECURSIVE ScanWord(_, _)
ScanWord(s, i) ==
    IF i <= Len(s) /\ IsWordChar(s[i]) THEN ScanWord(s, i + 1) ELSE i

MIN_KEYWORD_LEN == 5

\* the matches that start in lo..hi, in order (the range is halved)
RECURSIVE findall_long_words_range(_, _, _)
findall_long_words_range(s, lo, hi) ==
    IF lo > hi THEN <<>>
    ELSE IF lo = hi
    THEN IF /\ IsWordChar(s[lo])
            /\ lo = 1 \/ ~IsWordChar(s[lo - 1])
            /\ ScanWord(s, lo) - lo >= MIN_KEYWORD_LEN
         THEN <<SubSeq(s, lo, ScanWord(s, lo) - 1)>>
         ELSE <<>>
    ELSE LET mid == (lo + hi) \div 2
         IN  findall_long_words_range(s, lo, mid) \o findall_long_words_range(s, mid + 1, hi)

findall_long_words(s) == findall_long_words_range(s, 1, Len(s))

\* the keys of the freq dict, in insertion order
RECURSIVE dict_keys(_)
dict_keys(words) ==
    IF words = <<>> THEN <<>>
    ELSE LET init == SubSeq(words, 1, Len(words) - 1)
             last == words[Len(words)]
             keys == dict_keys(init)
         IN  IF last \in SeqRange(keys) THEN keys ELSE Append(keys, last)

count_of(words, w) == Cardinality({i \in 1..Len(words) : words[i] = w})

\* sorted(keys, key=count, reverse=True): stable, descending
RECURSIVE sorted_desc(_, _)
sorted_desc(keys, words) ==
    IF keys = <<>> THEN <<>>
    ELSE LET init == sorted_desc(SubSeq(keys, 1, Len(keys) - 1), words)
             last == keys[Len(keys)]
             \* the last key goes after every key whose count is not smaller
             p == Cardinality({i \in 1..Len(init) :
                                  count_of(words, init[i]) >= count_of(words, last)})
         IN  SubSeq(init, 1, p) \o <<last>> \o SubSeq(init, p + 1, Len(init))

\* sorted(keys, key=count) then reversed: ties come out last-seen first
RECURSIVE sorted_desc_unstable(_, _)
sorted_desc_unstable(keys, words) ==
    IF keys = <<>> THEN <<>>
    ELSE LET init == sorted_desc_unstable(SubSeq(keys, 1, Len(keys) - 1), words)
             last == keys[Len(keys)]
             p == Cardinality({i \in 1..Len(init) :
                                  count_of(words, init[i]) > count_of(words, last)})
         IN  SubSeq(init, 1, p) \o <<last>> \o SubSeq(init, p + 1, Len(init))

\* sep.join(items)
RECURSIVE join(_, _)
join(sep, items) ==
    IF items = <<>> THEN <<>>
    ELSE IF Len(items) = 1 THEN items[1]
    ELSE items[1] \o sep \o join(sep, Tail(items))

CommaSpace == <<",", " ">>

extract_keywords_unstable(s, max_keywords) ==
    LET words == findall_long_words(lower(s))
        sorted_words == sorted_desc_unstable(dict_keys(words), words)
    IN  IF sorted_words # <<>>
        THEN join(CommaSpace, SubSeq(sorted_words, 1, Min(max_keywords, Len(sorted_words))))
        ELSE None

\* max_keywords >= 0
extract_keywords(s, max_keywords) ==
    LET words == findall_long_words(lower(s))
        sorted_words == sorted_desc(dict_keys(words), words)
    IN  IF sorted_words # <<>>
        THEN join(CommaSpace, SubSeq(sorted_words, 1, Min(max_keywords, Len(sorted_words))))
        ELSE None

DEFAULT_MAX_KEYWORDS == 5

\* str(n) for n >= 0
RECURSIVE Digits(_)
Digits(n) ==
    IF n < 10 THEN <<DigitChars[n + 1]>>
    ELSE Append(Digits(n \div 10), DigitChars[(n % 10) + 1])

\* A metadata value is <<type, text>>: a Python int with its decimal text, or
\* a Python str with its characters.
IntVal(n) == <<"int", Digits(n)>>
StrVal(s) == <<"str", s>>

\* A metadata dict is the sequence of its <<key, value>> pairs in insertion
\* order.  facts: what file_path.stat(), read_bytes() and the clock give.
\* 'chunk_number': idx in place of idx+1
extract_rich_metadata_zero_based(facts, chunk, chunk_number, total_chunks) ==
    << <<"file_hash", StrVal(facts.file_hash)>>,
       <<"original_size", IntVal(facts.original_size)>>,
       <<"created_date", StrVal(facts.created_date)>>,
       <<"modified_date", StrVal(facts.modified_date)>>,
       <<"processing_time", StrVal(facts.now)>>,
       <<"chunk_number", IntVal(chunk_number - 1)>>,
       <<"total_chunks", IntVal(total_chunks)>>,
       <<"word_count", IntVal(Len(split(chunk)))>> >>

extract_rich_metadata(facts, chunk, chunk_number, total_chunks) ==
    LET base == << <<"file_hash", StrVal(facts.file_hash)>>,
                   <<"original_size", IntVal(facts.original_size)>>,
                   <<"created_date", StrVal(facts.created_date)>>,
                   <<"modified_date", StrVal(facts.modified_date)>>,
                   <<"processing_time", StrVal(facts.now)>>,
                   <<"chunk_number", IntVal(chunk_number)>>,
                   <<"total_chunks", IntVal(total_chunks)>>,
                   <<"word_count", IntVal(Len(split(chunk)))>> >>
        heading == extract_heading(chunk)
        keywords == extract_keywords(chunk, DEFAULT_MAX_KEYWORDS)
        lines == stripped_lines(chunk)
    IN  base
        \o (IF heading # None THEN << <<"section_heading", StrVal(heading)>> >> ELSE <<>>)
        \o (IF keywords # None THEN << <<"keywords", StrVal(keywords)>> >> ELSE <<>>)
        \o (IF lines # <<>>
            THEN << <<"first_line", StrVal(lines[1])>>,
                    <<"last_line", StrVal(lines[Len(lines)])>> >>
            ELSE <<>>)

\* dict lookups on a metadata sequence
HasKey(md, k) == \E i \in 1..Len(md) : md[i][1] = k
Get(md, k) == md[CHOOSE i \in 1..Len(md) : md[i][1] = k][2]

-----------------------------------------------------------------------------
(* utils/markdown_utils.py: yaml.dump(metadata, sort_keys=False,           *)
(* allow_unicode=True) as PyYAML's emitter writes a block mapping of int   *)
(* and str scalars.  Lines stay under the emitter's width of 80 columns in *)
(* the model, so no scalar is folded at a space.                           *)

YamlBreak == "\n"
\* U+0085 NEXT LINE, one character
NEL == "<U+0085>"
\* the line breaks of the emitter ('\n\x85\u2028\u2029') within the model
YamlBreaks == {YamlBreak, NEL}
Quote == "'"
DQuote == "\""
Backslash == "\\"

\* the characters PyYAML treats as white space after an indicator
IsYamlBlank(c) == c \in {" ", "\t", "\r", "\n", NEL}

FollowedByWhitespace(s, i) == i = Len(s) \/ IsYamlBlank(s[i + 1])
PrecededByWhitespace(s, i) == i = 1 \/ IsYamlBlank(s[i - 1])

StartsWith(s, pre) == Len(s) >= Len(pre) /\ SubSeq(s, 1, Len(pre)) = pre

\* analyze_scalar: block_indicators
block_indicators(s) ==
    \/ StartsWith(s, <<"-", "-", "-">>)
    \/ StartsWith(s, <<".", ".", ".">>)
    \/ s[1] \in {"#", ",", "[", "]", "{", "}", "&", "*", "!", "|", ">", "'",
                 "\"", "%", "@"}
    \/ s[1] \in {"?", ":", "-"} /\ FollowedByWhitespace(s, 1)
    \/ \E i \in 2..Len(s) :
          \/ s[i] = ":" /\ FollowedByWhitespace(s, i)
          \/ s[i] = "#" /\ PrecededByWhitespace(s, i)

line_breaks(s) == \E i \in 1..Len(s) : s[i] \in YamlBreaks
\* with allow_unicode=True, U+0085 is a unicode character, not a special one
special_characters(s) == \E i \in 1..Len(s) : s[i] \in {"\t", "\r"}
break_space(s) == \E i \in 1..(Len(s) - 1) : s[i] \in YamlBreaks /\ s[i + 1] = " "
space_break(s) == \E i \in 1..(Len(s) - 1) : s[i] = " " /\ s[i + 1] \in YamlBreaks
leading_or_trailing_blank(s) ==
    s[1] \in ({" "} \cup YamlBreaks) \/ s[Len(s)] \in ({" "} \cup YamlBreaks)

allow_block_plain(s) ==
    /\ ~leading_or_trailing_blank(s)
    /\ ~break_space(s)
    /\ ~space_break(s)
    /\ ~special_characters(s)
    /\ ~line_breaks(s)
    /\ ~block_indicators(s)

allow_single_quoted(s) ==
    ~break_space(s) /\ ~space_break(s) /\ ~special_characters(s)

\* the implicit resolver's int pattern, decimal and octal forms:
\* [-+]?(?:0|[1-9][0-9_]*) and [-+]?0[0-7_]+ (the binary, hexadecimal and
\* sexagesimal forms need 'b', 'x' or ':' after a digit, which no value of
\* the model has)
resolves_to_int(s) ==
    LET d == IF s # <<>> /\ s[1] \in {"-", "+"} THEN Tail(s) ELSE s
    IN  /\ d # <<>>
        /\ \/ d = <<"0">>
           \/ /\ d[1] \in (DigitSet \ {"0"})
              /\ \A i \in 2..Len(d) : IsDigit(d[i]) \/ d[i] = "_"
           \/ /\ d[1] = "0"
              /\ Len(d) >= 2
              /\ \A i \in 2..Len(d) : d[i] \in ((DigitSet \ {"8", "9"}) \cup {"_"})

\* choose_scalar_style for a str in a block mapping value
scalar_style(s) ==
    IF s = <<>> THEN "single"
    ELSE IF ~resolves_to_int(s) /\ allow_block_plain(s) THEN "plain"
    ELSE IF allow_single_quoted(s) THEN "single"
    ELSE "double"

YamlIndent == <<" ", " ">>

\* write_single_quoted from position i: a run of breaks is written as it
\* is, after one more '\n' when it starts with '\n', and followed by the
\* indent; a quote is doubled
RECURSIVE write_single_quoted_from(_, _)
write_single_quoted_from(s, i) ==
    IF i > Len(s) THEN <<>>
    ELSE IF s[i] \in YamlBreaks
    THEN LET j == CHOOSE k \in (i + 1)..(Len(s) + 1) :
                     /\ k = Len(s) + 1 \/ s[k] \notin YamlBreaks
                     /\ \A m \in i..(k - 1) : s[m] \in YamlBreaks
         IN  (IF s[i] = YamlBreak THEN <<YamlBreak>> ELSE <<>>)
                 \o SubSeq(s, i, j - 1) \o YamlIndent
                 \o write_single_quoted_from(s, j)
    ELSE IF s[i] = Quote THEN <<Quote, Quote>> \o write_single_quoted_from(s, i + 1)
    ELSE <<s[i]>> \o write_single_quoted_from(s, i + 1)

\* write_double_quoted: break, double quote and backslash are escaped
RECURSIVE write_double_quoted_from(_, _)
write_double_quoted_from(s, i) ==
    IF i > Len(s) THEN <<>>
    ELSE (IF s[i] = YamlBreak THEN <<Backslash, "n">>
          ELSE IF s[i] = NEL THEN <<Backslash, "N">>
          ELSE IF s[i] = "\t" THEN <<Backslash, "t">>
          ELSE IF s[i] = "\r" THEN <<Backslash, "r">>
          ELSE IF s[i] = DQuote THEN <<Backslash, DQuote>>
          ELSE IF s[i] = Backslash THEN <<Backslash, Backslash>>
          ELSE <<s[i]>>) \o write_double_quoted_from(s, i + 1)

\* the scalar of one value
yaml_scalar(v) ==
    IF v[1] = "int" THEN v[2]
    ELSE LET style == scalar_style(v[2])
         IN  IF style = "plain" THEN v[2]
             ELSE IF style = "single"
             THEN <<Quote>> \o write_single_quoted_from(v[2], 1) \o <<Quote>>
             ELSE <<DQuote>> \o write_double_quoted_from(v[2], 1) \o <<DQuote>>

\* a key is one symbol of the text: the field names are identifiers
yaml_dump(md) ==
    IF md = <<>> THEN <<"{", "}", YamlBreak>>
    ELSE Flatten([i \in 1..Len(md) |->
                    <<md[i][1], ":", " ">> \o yaml_scalar(md[i][2]) \o <<YamlBreak>>])

Marker == <<"-", "-", "-">>

\* f"---\n{yaml_frontmatter}---\n\n{chunk}\n"
format_chunk_as_markdown(chunk, md) ==
    Marker \o <<"\n">> \o yaml_dump(md) \o Marker \o <<"\n", "\n">> \o chunk \o <<"\n">>

-----------------------------------------------------------------------------
(* No front-end is running: the state of the run while a function is       *)
(* studied on its own                                                      *)

NoRun ==
    /\ frontend = "none"
    /\ llm_enabled = FALSE
    /\ export_folder = FALSE
    /\ files = <<>>
    /\ fi = 0
    /\ idx = 0
    /\ llm_meta = <<>>
    /\ faults = 0
    /\ output_files = <<>>
    /\ exported = {}
    /\ messages = <<>>
    /\ requests = <<>>
    /\ chunker_calls = {}
    /\ report = None
    /\ events = <<>>

-----------------------------------------------------------------------------
(* The chunker as a function of its inputs *)

ChunkAlphabet == {"a", "b", " ", "\n"}

InitChunk ==
    /\ pc = "input"
    /\ text \in SeqsUpTo(ChunkAlphabet, MaxTextLen)
    /\ chunk_size \in 1..MaxChunkSize
    /\ chunks = <<>>
    /\ max_keywords_arg = DEFAULT_MAX_KEYWORDS
    /\ metadata = <<>>
    /\ md_content = <<>>
    /\ result = <<>>
    /\ NoRun

CallChunker ==
    /\ pc = "input"
    /\ ~range_raises(chunk_size)
    /\ chunks' = chunk_text_by_words(text, chunk_size)
    /\ pc' = "chunked"
    /\ UNCHANGED <<text, chunk_size, max_keywords_arg, metadata, md_content, result, run_vars>>

NextChunk == CallChunker

SpecChunk == InitChunk /\ [][NextChunk]_vars

CeilDiv(a, b) == (a + b - 1) \div b

\* C1: the words of the chunks, read in chunk order, are exactly the words of
\* the text, and there are ceil(word_count / chunk_size) chunks.
C1_WordsPreserved ==
    (pc = "chunked" /\ text # <<>>) =>
        /\ Flatten([n \in 1..Len(chunks) |-> split(chunks[n])]) = split(text)
        /\ Len(chunks) = CeilDiv(Len(split(text)), chunk_size)

C1_Witness ==
    /\ pc = "chunked"
    /\ Len(split(text)) = 3
    /\ chunk_size = 2
    /\ Len(chunks) = 2

\* C2: chunking the empty text gives the empty sequence, not one empty chunk.
C2_EmptyTextNoChunks ==
    (pc = "chunked" /\ text = <<>>) => chunks = <<>>

C2_Witness ==
    pc = "chunked" /\ text = <<>> /\ Len(chunks) = 0

\* C3: every chunk but the last has exactly chunk_size words, the last has
\* between 1 and chunk_size, and no chunk is empty after trimming.
C3_ChunkSizes ==
    pc = "chunked" =>
        \A n \in 1..Len(chunks) :
            /\ strip(chunks[n]) # <<>>
            /\ n < Len(chunks) => Len(split(chunks[n])) = chunk_size
            /\ n = Len(chunks) =>
                   /\ Len(split(chunks[n])) >= 1
                   /\ Len(split(chunks[n])) <= chunk_size

C3_Witness ==
    /\ pc = "chunked"
    /\ chunk_size = 2
    /\ Len(chunks) = 2
    /\ Len(split(chunks[1])) = 2
    /\ Len(split(chunks[2])) = 1

-----------------------------------------------------------------------------
(* Heading detection as a function of the chunk *)

HeadingAlphabet == {"A", "b", "1", " ", "\n"}

SampleFacts ==
    [file_hash |-> <<"h">>, original_size |-> 7, created_date |-> <<"t">>,
     modified_date |-> <<"t">>, now |-> <<"t">>]

InitHeading ==
    /\ pc = "input"
    /\ text \in SeqsUpTo(HeadingAlphabet, MaxHeadingLen)
    /\ chunk_size = DEFAULT_CHUNK_SIZE
    /\ chunks = <<>>
    /\ max_keywords_arg = DEFAULT_MAX_KEYWORDS
    /\ metadata = <<>>
    /\ md_content = <<>>
    /\ result = <<>>
    /\ NoRun

CallExtractRichMetadata ==
    /\ pc = "input"
    /\ result' = extract_rich_metadata(SampleFacts, text, 1, 1)
    /\ pc' = "extracted"
    /\ UNCHANGED <<text, chunk_size, chunks, max_keywords_arg, metadata, md_content, run_vars>>

NextHeading == CallExtractRichMetadata

SpecHeading == InitHeading /\ [][NextHeading]_vars

\* the first line of s that is not blank, trimmed; <<>> when there is none
FirstNonBlankLine(s) ==
    LET ls == splitlines(s)
        nb == {i \in 1..Len(ls) : strip(ls[i]) # <<>>}
    IN  IF nb = {} THEN <<>>
        ELSE strip(ls[CHOOSE i \in nb : \A j \in nb : i <= j])

\* entirely upper-case letters and spaces
AllUpperLettersAndSpaces(l) ==
    \A i \in 1..Len(l) : IsUpperLetter(l[i]) \/ l[i] = " "

\* one or more words separated by single spaces, each an upper-case letter
\* followed by one or more lower-case letters
TitleCaseWords(l) ==
    /\ l # <<>>
    /\ \A i \in 1..Len(l) :
          IF i = 1 \/ (i > 1 /\ l[i - 1] = " ")
          THEN IsUpperLetter(l[i]) /\ i < Len(l) /\ IsLowerLetter(l[i + 1])
          ELSE IsLowerLetter(l[i]) \/ (l[i] = " " /\ i < Len(l))

\* at least one upper-case letter and no lower-case letter; digits,
\* punctuation and spaces may be present
NoLowerSomeUpper(l) ==
    /\ \E i \in 1..Len(l) : IsUpperLetter(l[i])
    /\ \A i \in 1..Len(l) : ~IsLowerLetter(l[i])

\* C9 as stated: section_heading is the first non-blank line exactly when
\* that line is entirely upper-case letters and spaces or Title-Case words.
C9_HeadingAsStated ==
    pc = "extracted" =>
        LET l == FirstNonBlankLine(text)
        IN  /\ HasKey(result, "section_heading") <=>
                  (l # <<>> /\ (AllUpperLettersAndSpaces(l) \/ TitleCaseWords(l)))
            /\ HasKey(result, "section_heading") => Get(result, "section_heading") = StrVal(l)

\* C9 amended: section_heading is the first non-blank line exactly when that
\* line has an upper-case letter and no lower-case letter (digits and
\* punctuation allowed), or is Title-Case words; otherwise the field is absent.
C9_HeadingAmended ==
    pc = "extracted" =>
        LET l == FirstNonBlankLine(text)
        IN  /\ HasKey(result, "section_heading") <=>
                  (l # <<>> /\ (NoLowerSomeUpper(l) \/ TitleCaseWords(l)))
            /\ HasKey(result, "section_heading") => Get(result, "section_heading") = StrVal(l)

C9_Witness ==
    /\ pc = "extracted"
    /\ text = <<"\n", "A", "b", "\n", "b">>
    /\ HasKey(result, "section_heading")
    /\ Get(result, "section_heading") = StrVal(<<"A", "b">>)

-----------------------------------------------------------------------------
(* Keyword extraction as a function of the text and max_keywords_arg *)

Apple == <<"A", "p", "p", "l", "e">>
apple == <<"a", "p", "p", "l", "e">>
banana == <<"b", "a", "n", "a", "n", "a">>
cherry == <<"c", "h", "e", "r", "r", "y">>
KeywordVocabulary ==
    {Apple, apple, banana, cherry, <<"f", "i", "g">>, <<"a", "b", "_", "c", "d">>}

\* 'Apple apple banana cherry cherry cherry'
ExampleText == join(<<" ">>, <<Apple, apple, banana, cherry, cherry, cherry>>)

KeywordTexts ==
    {join(<<" ">>, ws) : ws \in SeqsUpTo(KeywordVocabulary, MaxWords)}
        \cup {ExampleText}

InitKeywords ==
    /\ pc = "input"
    /\ text \in KeywordTexts
    /\ max_keywords_arg \in 1..MaxKeywords
    /\ chunk_size = DEFAULT_CHUNK_SIZE
    /\ chunks = <<>>
    /\ metadata = <<>>
    /\ md_content = <<>>
    /\ result = <<>>
    /\ NoRun

CallExtractKeywords ==
    /\ pc = "input"
    /\ result' = extract_keywords(text, max_keywords_arg)
    /\ pc' = "extracted"
    /\ UNCHANGED <<text, chunk_size, chunks, max_keywords_arg, metadata, md_content, run_vars>>

NextKeywords == CallExtractKeywords

SpecKeywords == InitKeywords /\ [][NextKeywords]_vars

\* The n most frequent lower-cased words of s, a word being a maximal run of
\* 5 or more characters of the class IsCh, by descending frequency, ties by
\* first occurrence, joined by ', '; None when there is no such word.
TopKeywords(s, n, IsCh(_)) ==
    LET t == lower(s)
        Starts == {i \in 1..Len(t) : IsCh(t[i]) /\ (i = 1 \/ ~IsCh(t[i - 1]))}
        EndOf(i) == CHOOSE j \in i..Len(t) :
                        /\ j = Len(t) \/ ~IsCh(t[j + 1])
                        /\ \A k \in i..j : IsCh(t[k])
        Long == {i \in Starts : EndOf(i) - i + 1 >= 5}
        at == [i \in Long |-> SubSeq(t, i, EndOf(i))]
        Words == {at[i] : i \in Long}
        freq == [w \in Words |-> Cardinality({i \in Long : at[i] = w})]
        first == [w \in Words |->
                     CHOOSE i \in Long : at[i] = w /\ \A j \in Long : at[j] = w => i <= j]
        rank == [w \in Words |-> 1 + Cardinality({v \in Words :
                     \/ freq[v] > freq[w]
                     \/ freq[v] = freq[w] /\ first[v] < first[w]})]
        top == [i \in 1..Min(n, Cardinality(Words)) |->
                   CHOOSE w \in Words : rank[w] = i]
    IN  IF Words = {} THEN None ELSE join(CommaSpace, top)

-----------------------------------------------------------------------------
(* The formatter as a function of the chunk and the metadata *)

ValueAlphabet == {"a", "-", " ", "\n", "'", NEL}
BodyLines == {<<>>, Marker, <<"a">>}

RenderBodies == {join(<<"\n">>, ls) : ls \in SeqsUpTo(BodyLines, MaxBodyLines)}

InitRender ==
    /\ pc = "input"
    /\ text \in RenderBodies
    /\ \E n \in 1..2, fl \in {<<"a">>, <<"1">>},
          v \in SeqsUpTo(ValueAlphabet, MaxValueLen) :
          metadata = << <<"chunk_number", IntVal(n)>>,
                        <<"first_line", StrVal(fl)>>,
                        <<"llm_summary", StrVal(v)>> >>
    /\ chunk_size = DEFAULT_CHUNK_SIZE
    /\ chunks = <<>>
    /\ max_keywords_arg = DEFAULT_MAX_KEYWORDS
    /\ md_content = <<>>
    /\ result = <<>>
    /\ NoRun

CallFormat ==
    /\ pc = "input"
    /\ md_content' = format_chunk_as_markdown(text, metadata)
    /\ pc' = "rendered"
    /\ UNCHANGED <<text, chunk_size, chunks, max_keywords_arg, metadata, result, run_vars>>

NextRender == CallFormat

SpecRender == InitRender /\ [][NextRender]_vars

\* the positions of doc where a line starts
LineStarts(doc) == {p \in 1..Len(doc) : p = 1 \/ doc[p - 1] = "\n"}

IsMarkerLineAt(doc, p) ==
    /\ p + 3 <= Len(doc)
    /\ SubSeq(doc, p, p + 2) = Marker
    /\ doc[p + 3] = "\n"

SetMin(S) == CHOOSE x \in S : \A y \in S : x <= y

\* The header is what lies between the opening marker line and the closing
\* marker line (the next line that is a marker); the body is what follows the
\* first blank line after the closing marker, less the final line break.
SplitHeaderAndBody(doc) ==
    LET closings == {p \in LineStarts(doc) : p > 1 /\ IsMarkerLineAt(doc, p)}
        closing == SetMin(closings)
        blanks == {q \in LineStarts(doc) : q > closing /\ doc[q] = "\n"}
        blank == SetMin(blanks)
    IN  IF ~IsMarkerLineAt(doc, 1) \/ closings = {} THEN [header |-> None, body |-> None]
        ELSE IF blanks = {} \/ doc[Len(doc)] # "\n" \/ blank = Len(doc)
        THEN [header |-> SubSeq(doc, 5, closing - 1), body |-> None]
        ELSE [header |-> SubSeq(doc, 5, closing - 1),
              body |-> SubSeq(doc, blank + 1, Len(doc) - 1)]

RECURSIVE ScanSp(_, _)
ScanSp(h, p) == IF p <= Len(h) /\ h[p] = " " THEN ScanSp(h, p + 1) ELSE p

\* the loader's scan_flow_scalar_breaks: the blank lines after a line break
\* (scan_line_break reads '\n' for '\n' and for U+0085)
RECURSIVE scan_breaks(_, _, _)
scan_breaks(h, p, count) ==
    LET r == ScanSp(h, p)
    IN  IF r <= Len(h) /\ h[r] \in YamlBreaks THEN scan_breaks(h, r + 1, count + 1)
        ELSE [count |-> count, next |-> r]

\* the loader's single-quoted scalar from p (after the opening quote): a line
\* break with the blanks around it folds to a space, each further break is a
\* line break, '' is a quote
RECURSIVE scan_single(_, _, _)
scan_single(h, p, acc) ==
    IF p > Len(h) THEN [str |-> None, next |-> Len(h) + 1]
    ELSE IF h[p] = Quote
    THEN IF p < Len(h) /\ h[p + 1] = Quote
         THEN scan_single(h, p + 2, Append(acc, Quote))
         ELSE [str |-> acc, next |-> p + 1]
    ELSE IF h[p] \in ({" "} \cup YamlBreaks)
    THEN LET q == ScanSp(h, p)
         IN  IF q <= Len(h) /\ h[q] \in YamlBreaks
             THEN LET b == scan_breaks(h, q + 1, 0)
                  IN  scan_single(h, b.next,
                          acc \o (IF b.count = 0 THEN <<" ">>
                                  ELSE [n \in 1..b.count |-> "\n"]))
             ELSE scan_single(h, q, acc \o SubSeq(h, p, q - 1))
    ELSE scan_single(h, p + 1, Append(acc, h[p]))

\* the loader's double-quoted scalar from p (after the opening quote)
RECURSIVE scan_double(_, _, _)
scan_double(h, p, acc) ==
    IF p > Len(h) THEN [str |-> None, next |-> Len(h) + 1]
    ELSE IF h[p] = DQuote THEN [str |-> acc, next |-> p + 1]
    ELSE IF h[p] = Backslash /\ p < Len(h)
    THEN scan_double(h, p + 2,
             Append(acc, IF h[p + 1] = "n" THEN "\n"
                         ELSE IF h[p + 1] = "N" THEN NEL
                         ELSE IF h[p + 1] = "t" THEN "\t"
                         ELSE IF h[p + 1] = "r" THEN "\r"
                         ELSE h[p + 1]))
    ELSE scan_double(h, p + 1, Append(acc, h[p]))

\* the value that starts at p, and the position after its line
scan_value(h, p) ==
    IF p <= Len(h) /\ h[p] = Quote
    THEN LET r == scan_single(h, p + 1, <<>>)
         IN  [val |-> IF r.str = None THEN None ELSE StrVal(r.str), next |-> r.next + 1]
    ELSE IF p <= Len(h) /\ h[p] = DQuote
    THEN LET r == scan_double(h, p + 1, <<>>)
         IN  [val |-> IF r.str = None THEN None ELSE StrVal(r.str), next |-> r.next + 1]
    ELSE LET e == ScanToBreak(h, p)
             raw == SubSeq(h, p, ScanSpaceBack(h, e - 1))
         IN  [val |-> IF resolves_to_int(raw) THEN <<"int", raw>> ELSE StrVal(raw),
              next |-> e + 1]

\* yaml.safe_load of a header: the <<key, value>> pairs in order
RECURSIVE yaml_load_from(_, _)
yaml_load_from(h, i) ==
    IF i > Len(h) THEN <<>>
    ELSE IF i + 3 > Len(h) \/ h[i + 1] # ":" \/ h[i + 2] # " " THEN <<None>>
    ELSE LET r == scan_value(h, i + 3)
         IN  << <<h[i], r.val>> >> \o yaml_load_from(h, r.next)

yaml_load(h) == IF h = None THEN None ELSE yaml_load_from(h, 1)

\* the metadata read back from the rendered document
HeaderRead == yaml_load(SplitHeaderAndBody(md_content).header)

\* C4: splitting the rendered document at the first blank line after the
\* closing marker gives back the metadata (same keys, same values, same
\* order) and a body equal to the chunk.
C4_RenderRoundTrip ==
    pc = "rendered" =>
        LET parts == SplitHeaderAndBody(md_content)
        IN  /\ parts.body = text
            /\ yaml_load(parts.header) = metadata

\* a value that holds U+0085 is written single-quoted with the character as
\* it is, and the loader folds it into a space
C4_Witness ==
    /\ pc = "rendered"
    /\ Get(metadata, "llm_summary") = StrVal(<<"a", NEL, "a">>)
    /\ text = <<"a", "\n", "-", "-", "-">>
    /\ SplitHeaderAndBody(md_content).body = text
    /\ Get(HeaderRead, "llm_summary") = StrVal(<<"a", " ", "a">>)

\* Without U+0085 in a value the round trip holds, also for values of
\* several lines and for bodies with a blank line or a marker line; the body
\* is recovered in every case.
RenderRoundTripWithoutNEL ==
    pc = "rendered" =>
        /\ SplitHeaderAndBody(md_content).body = text
        /\ (\A i \in 1..Len(metadata) : NEL \notin SeqRange(metadata[i][2][2])) =>
               HeaderRead = metadata

-----------------------------------------------------------------------------
(* utils/llm_connector.py *)

LLM_FIELDS == <<"llm_summary", "llm_keywords", "llm_section">>

\* f"[LLM HTTP error: {http_err}\nStatus code: ...\nResponse: ...\nRequest: ...]"
HTTP_ERROR_STRING == <<"[", "H", "\n", "S", "\n", "R", "\n", "Q", "]">>
\* f"[LLM error: {e}\nRequest: ...]"
ERROR_STRING == <<"[", "E", "\n", "Q", "]">>

\* What requests.post and the decoding of its response do for one request:
\* [kind |-> "ok", content |-> the message content], or an HTTPError, or
\* any other exception.
\* the generic except clause is missing: other exceptions propagate
call_llm_reraises(response) ==
    IF response.kind = "ok" THEN [raised |-> FALSE, value |-> strip(response.content)]
    ELSE IF response.kind = "http_error" THEN [raised |-> FALSE, value |-> HTTP_ERROR_STRING]
    ELSE [raised |-> TRUE, value |-> None]

\* a failed request is sent a second time
posts_of_retry(kind) == IF kind = "ok" THEN 1 ELSE 2

\* the requests.post calls of one call_llm: one, whatever the outcome
posts_of(kind) == 1

call_llm(response) ==
    IF response.kind = "ok" THEN [raised |-> FALSE, value |-> strip(response.content)]
    ELSE IF response.kind = "http_error" THEN [raised |-> FALSE, value |-> HTTP_ERROR_STRING]
    ELSE [raised |-> FALSE, value |-> ERROR_STRING]

\* the enriched fields are placed before the local ones
dict_update_enriched_first(md, other) ==
    other \o SelectSeq(md, LAMBDA e : \A n \in 1..Len(other) : other[n][1] # e[1])

\* dict.update: a key already present keeps its place and takes the new
\* value, a new key is appended
RECURSIVE dict_update(_, _)
dict_update(md, other) ==
    IF other = <<>> THEN md
    ELSE LET k == other[1][1]
             v == other[1][2]
             set == IF HasKey(md, k)
                    THEN [i \in 1..Len(md) |-> IF md[i][1] = k THEN <<k, v>> ELSE md[i]]
                    ELSE Append(md, <<k, v>>)
         IN  dict_update(set, Tail(other))

\* the characters a chunk is made of here, with their code points
DEL == "<U+007F>"
US == "<U+001F>"
PromptAlphabet == {"~", " ", "\t", "\n", "\r", US, DEL, NEL}
CodePoint(c) ==
    CASE c = "\t" -> 9
      [] c = "\n" -> 10
      [] c = "\r" -> 13
      [] c = US -> 31
      [] c = " " -> 32
      [] c = "~" -> 126
      [] c = DEL -> 127
      [] c = NEL -> 133

\* max_chars=4000
MAX_CHARS == 4000

\* text[:max_chars]
truncate_text(s, max_chars) == SubSeq(s, 1, Min(Len(s), max_chars))

\* re.sub(r'[^\x09\x0A\x0D\x20-\x7E]', '', text)
clean_text(s) ==
    SelectSeq(s, LAMBDA c : \/ CodePoint(c) \in {9, 10, 13}
                            \/ CodePoint(c) \in 32..126)

SUMMARY_INSTRUCTION ==
    <<"S", "u", "m", "m", "a", "r", "i", "z", "e", " ", "t", "h", "e", " ",
      "f", "o", "l", "l", "o", "w", "i", "n", "g", " ", "d", "o", "c", "u",
      "m", "e", "n", "t", " ", "c", "h", "u", "n", "k", " ", "i", "n", " ",
      "1", "-", "2", " ", "s", "e", "n", "t", "e", "n", "c", "e", "s", ":">>
KEYWORDS_INSTRUCTION ==
    <<"E", "x", "t", "r", "a", "c", "t", " ", "5", "-", "1", "0", " ", "k",
      "e", "y", "w", "o", "r", "d", "s", " ", "o", "r", " ", "t", "o", "p",
      "i", "c", "s", " ", "f", "r", "o", "m", " ", "t", "h", "e", " ", "f",
      "o", "l", "l", "o", "w", "i", "n", "g", " ", "d", "o", "c", "u", "m",
      "e", "n", "t", " ", "c", "h", "u", "n", "k", ":">>
SECTION_INSTRUCTION ==
    <<"I", "f", " ", "t", "h", "i", "s", " ", "c", "h", "u", "n", "k", " ",
      "i", "s", " ", "p", "a", "r", "t", " ", "o", "f", " ", "a", " ", "c",
      "h", "a", "p", "t", "e", "r", " ", "o", "r", " ", "s", "e", "c", "t",
      "i", "o", "n", ",", " ", "p", "r", "o", "v", "i", "d", "e", " ", "t",
      "h", "e", " ", "l", "i", "k", "e", "l", "y", " ", "s", "e", "c", "t",
      "i", "o", "n", " ", "o", "r", " ", "c", "h", "a", "p", "t", "e", "r",
      " ", "t", "i", "t", "l", "e", ".", " ", "I", "f", " ", "n", "o", "t",
      ",", " ", "s", "a", "y", " ", "'", "N", "o", "n", "e", "'", ".">>

\* the chunk is cleaned first and cut afterwards
chunk_clean_of_clean_first(chunk) == truncate_text(clean_text(chunk), MAX_CHARS)

\* chunk_trunc = self.truncate_text(chunk); chunk_clean = self.clean_text(chunk_trunc)
chunk_clean_of(chunk) == clean_text(truncate_text(chunk, MAX_CHARS))

\* the three prompts of enrich_metadata, in the order of its call_llm calls
enrich_prompts(chunk) ==
    LET chunk_clean == chunk_clean_of(chunk)
    IN  <<SUMMARY_INSTRUCTION \o <<"\n", "\n">> \o chunk_clean,
          KEYWORDS_INSTRUCTION \o <<"\n", "\n">> \o chunk_clean,
          SECTION_INSTRUCTION \o <<"\n", "\n">> \o chunk_clean>>

-----------------------------------------------------------------------------
(* The prompts of enrich_metadata as a function of the chunk *)

\* chunks around the limit: a pattern of characters repeated to the length
PromptLengths == {1} \cup (MAX_CHARS..(MAX_CHARS + MaxOver))
Repeated(pattern, n) == [i \in 1..n |-> pattern[((i - 1) % Len(pattern)) + 1]]
PromptChunks ==
    {Repeated(pattern, n) : pattern \in SeqsUpTo(PromptAlphabet, MaxPatternLen) \ {<<>>},
                            n \in PromptLengths}

InitPrompt ==
    /\ pc = "input"
    /\ text \in PromptChunks
    /\ chunk_size = DEFAULT_CHUNK_SIZE
    /\ chunks = <<>>
    /\ max_keywords_arg = DEFAULT_MAX_KEYWORDS
    /\ metadata = <<>>
    /\ md_content = <<>>
    /\ result = <<>>
    /\ NoRun

CallEnrichMetadata ==
    /\ pc = "input"
    /\ result' = enrich_prompts(text)
    /\ pc' = "prompted"
    /\ UNCHANGED <<text, chunk_size, chunks, max_keywords_arg, metadata, md_content, run_vars>>

NextPrompt == CallEnrichMetadata

SpecPrompt == InitPrompt /\ [][NextPrompt]_vars

-----------------------------------------------------------------------------
(* main.py *)

generate_metadata(source_path, facts, chunk, chunk_number, total_chunks) ==
    << <<"source_path", StrVal(source_path)>>,
       <<"file_hash", StrVal(facts.file_hash)>>,
       <<"original_size", IntVal(facts.original_size)>>,
       <<"created_date", StrVal(facts.created_date)>>,
       <<"modified_date", StrVal(facts.modified_date)>>,
       <<"processing_time", StrVal(facts.now)>>,
       <<"chunk_number", IntVal(chunk_number)>>,
       <<"total_chunks", IntVal(total_chunks)>>,
       <<"word_count", IntVal(Len(split(chunk)))>> >>

supported_exts == {".txt", ".pdf", ".docx", ".pptx"}

-----------------------------------------------------------------------------
(* The files and inputs of a run *)

\* 'Ab\nb ccccc': three words, a Title-Case first line, one keyword
SmallText == <<"A", "b", "\n", "b", " ", "c", "c", "c", "c", "c">>

\* 2 * MIN_CHUNK_SIZE + 1 words, one on a line
BigText == [i \in 1..(2 * (2 * MIN_CHUNK_SIZE + 1)) |-> IF i % 2 = 1 THEN "w" ELSE "\n"]

FileA == [name |-> <<"a", ".txt">>, stem |-> <<"a">>, ext |-> ".txt", content |-> SmallText]
FileB == [name |-> <<"a", ".pdf">>, stem |-> <<"a">>, ext |-> ".pdf", content |-> BigText]
FileC == [name |-> <<"b", ".txt">>, stem |-> <<"b">>, ext |-> ".txt", content |-> <<" ", "\n">>]
FileD == [name |-> <<"n", ".md">>, stem |-> <<"n">>, ext |-> ".md", content |-> SmallText]

FrontEnds == {"main", "app", "app_llm", "gradio"}

\* main iterates the whole input folder, which also holds a whitespace-only
\* file and a file of another type; the others collect the four extensions
FilesSeenBy(fe) ==
    IF fe = "main" THEN {FileA, FileB, FileC, FileD} ELSE {FileA, FileB}

Batches(fe) ==
    {b \in SeqsUpTo(FilesSeenBy(fe), MaxFiles) :
        \A i, j \in 1..Len(b) : i # j => b[i] # b[j]}

ChunkSizeInputs ==
    {-1, 0, MIN_CHUNK_SIZE - 1, MIN_CHUNK_SIZE, MAX_CHUNK_SIZE, MAX_CHUNK_SIZE + 1}

\* st.number_input holds only values within its min_value and max_value
number_input_accepts(k) == MIN_CHUNK_SIZE <= k /\ k <= MAX_CHUNK_SIZE

\* the chunk sizes a front-end can hand to its handler: app and app_llm read
\* a bounded st.number_input, main an argparse int, gradio int(gr.Number)
ChunkSizesOf(fe) ==
    IF fe \in {"app", "app_llm"}
    THEN {k \in ChunkSizeInputs : number_input_accepts(k)}
    ELSE ChunkSizeInputs

FactsOf(f) ==
    [file_hash |-> <<"h">> \o f.name, original_size |-> Len(f.content),
     created_date |-> <<"t">>, modified_date |-> <<"t">>, now |-> <<"t">>]

\* the message content the provider returns for a field
LLMContent(field) == <<" ", field, ".">>

\* f"{file_path.stem}_chunk{idx+1}.txt"
out_name_of(f, n) == f.stem \o <<"_chunk">> \o Digits(n) \o <<".txt">>

\* write_text / open(..., "w"): a file of the same name is replaced
WriteFile(dir, name, content) ==
    {e \in dir : e[1] # name} \cup {<<name, content>>}

RECURSIVE WriteAll(_, _)
WriteAll(dir, outs) ==
    IF outs = <<>> THEN dir
    ELSE WriteAll(WriteFile(dir, outs[1][1], outs[1][2]), Tail(outs))

-----------------------------------------------------------------------------
(* The front-ends: main.py main, app.py and app_llm.py Process handlers,   *)
(* gradio_app.py rag_pipeline / process_files                              *)

Init ==
    /\ frontend \in FrontEnds
    /\ chunk_size \in ChunkSizesOf(frontend)
    /\ llm_enabled \in (IF frontend = "main" THEN {FALSE} ELSE BOOLEAN)
    /\ export_folder \in (IF frontend \in {"app", "app_llm"} THEN BOOLEAN
                          ELSE {frontend = "main"})
    /\ files \in Batches(frontend)
    /\ pc = "next_file"
    /\ fi = 1
    /\ idx = 0
    /\ text = <<>>
    /\ chunks = <<>>
    /\ metadata = <<>>
    /\ llm_meta = <<>>
    /\ md_content = <<>>
    /\ max_keywords_arg = DEFAULT_MAX_KEYWORDS
    /\ result = <<>>
    /\ faults = 0
    /\ output_files = <<>>
    /\ exported = {}
    /\ messages = <<>>
    /\ requests = <<>>
    /\ chunker_calls = {}
    /\ report = None
    /\ events = <<>>

\* only app.py wraps the file and the chunk in try/except
CatchesFileErrors == frontend = "app"
CatchesChunkErrors == frontend = "app"

\* main.py: a file whose suffix is not supported is passed over
SkipUnsupported ==
    /\ pc = "next_file"
    /\ fi <= Len(files)
    /\ frontend = "main"
    /\ files[fi].ext \notin supported_exts
    /\ fi' = fi + 1
    /\ events' = Append(events, <<"skip", fi, 0>>)
    /\ UNCHANGED <<pc, pure_vars, frontend, llm_enabled, export_folder, files, idx,
                   llm_meta, faults, output_files, exported, messages, requests,
                   chunker_calls, report>>

\* what read_file_with_dispatcher can do for a file: return its text, return
\* None (an extractor caught its failure), or raise (read_txt_file lets
\* anything but a UnicodeDecodeError of the first read through)
ReadOutcomes(f) ==
    {"text"} \cup (IF faults < MaxFaults
                   THEN (IF f.ext = ".txt" THEN {"none", "raise"} ELSE {"none"})
                   ELSE {})

ReadFile ==
    /\ pc = "next_file"
    /\ fi <= Len(files)
    /\ frontend = "main" => files[fi].ext \in supported_exts
    /\ \E outcome \in ReadOutcomes(files[fi]) :
          LET got == IF outcome = "text" THEN files[fi].content ELSE <<>>
          IN  /\ faults' = IF outcome = "text" THEN faults ELSE faults + 1
              /\ events' = Append(events, <<IF outcome = "text" THEN "read"
                                            ELSE "read_failed", fi, 0>>)
              /\ IF outcome = "raise"
                 THEN IF CatchesFileErrors
                      THEN /\ messages' = Append(messages, <<"failed_to_process", fi>>)
                           /\ fi' = fi + 1
                           /\ UNCHANGED <<pc, text>>
                      ELSE /\ pc' = "aborted"
                           /\ UNCHANGED <<messages, fi, text>>
                 ELSE IF got = <<>>       \* if not text
                 THEN /\ messages' = IF frontend = "gradio" THEN messages
                                      ELSE Append(messages, <<"could_not_read", fi>>)
                      /\ fi' = fi + 1
                      /\ UNCHANGED <<pc, text>>
                 ELSE /\ text' = got
                      /\ pc' = "chunk"
                      /\ UNCHANGED <<messages, fi>>
    /\ UNCHANGED <<chunk_size, chunks, max_keywords_arg, metadata, md_content, result,
                   frontend, llm_enabled, export_folder, files, idx, llm_meta,
                   output_files, exported, requests, chunker_calls, report>>

ChunkText ==
    /\ pc = "chunk"
    /\ chunker_calls' = chunker_calls \cup {chunk_size}
    /\ IF range_raises(chunk_size)
       THEN IF CatchesFileErrors
            THEN /\ messages' = Append(messages, <<"chunking_failed", fi>>)
                 /\ fi' = fi + 1
                 /\ pc' = "next_file"
                 /\ UNCHANGED <<chunks, idx>>
            ELSE /\ pc' = "aborted"
                 /\ UNCHANGED <<messages, fi, chunks, idx>>
       ELSE /\ chunks' = chunk_text_by_words(text, chunk_size)
            /\ IF chunks' = <<>>
               THEN fi' = fi + 1 /\ pc' = "next_file" /\ idx' = 0
               ELSE fi' = fi /\ pc' = "meta" /\ idx' = 1
            /\ UNCHANGED messages
    /\ events' = Append(events, IF range_raises(chunk_size)
                                THEN <<"chunk_failed", fi, 0>>
                                ELSE <<"chunk", fi, Len(chunks')>>)
    /\ UNCHANGED <<text, chunk_size, max_keywords_arg, metadata, md_content, result,
                   frontend, llm_enabled, export_folder, files, llm_meta, faults,
                   output_files, exported, requests, report>>

\* the file is left after any chunk
ToNextChunk_leaves_file == idx' = idx /\ pc' = "next_file" /\ fi' = fi + 1

\* after chunk idx: the next chunk of the file, or the next file
ToNextChunk ==
    IF idx < Len(chunks)
    THEN idx' = idx + 1 /\ pc' = "meta" /\ fi' = fi
    ELSE idx' = idx /\ pc' = "next_file" /\ fi' = fi + 1

\* extract_rich_metadata (generate_metadata in main.py); file_path.stat()
\* and read_bytes() raise when the file cannot be read
DeriveMetadata ==
    /\ pc = "meta"
    /\ \E stat_ok \in (IF faults < MaxFaults THEN BOOLEAN ELSE {TRUE}) :
          /\ events' = Append(events, <<IF stat_ok THEN "meta" ELSE "meta_failed",
                                        fi, idx>>)
          /\ IF stat_ok
             THEN /\ metadata' =
                        IF frontend = "main"
                        THEN generate_metadata(files[fi].name, FactsOf(files[fi]),
                                               chunks[idx], idx, Len(chunks))
                        ELSE extract_rich_metadata(FactsOf(files[fi]), chunks[idx],
                                                   idx, Len(chunks))
                  /\ pc' = IF llm_enabled THEN "enrich" ELSE "render"
                  /\ llm_meta' = <<>>
                  /\ UNCHANGED <<faults, messages, fi, idx>>
             ELSE /\ faults' = faults + 1
                  /\ IF CatchesChunkErrors
                     THEN /\ messages' = Append(messages, <<"metadata_or_output_failed", fi, idx>>)
                          /\ ToNextChunk
                     ELSE /\ pc' = "aborted"
                          /\ UNCHANGED <<messages, fi, idx>>
                  /\ UNCHANGED <<metadata, llm_meta>>
    /\ UNCHANGED <<text, chunk_size, chunks, max_keywords_arg, md_content, result,
                   frontend, llm_enabled, export_folder, files,
                   output_files, exported, requests, chunker_calls, report>>

\* enrich_metadata: the next of its three call_llm calls
CallLLM ==
    /\ pc = "enrich"
    /\ LET field == LLM_FIELDS[Len(llm_meta) + 1]
       IN  \E kind \in {"ok"} \cup (IF faults < MaxFaults THEN {"http_error", "error"} ELSE {}) :
              LET r == call_llm([kind |-> kind, content |-> LLMContent(field)])
              IN  /\ faults' = IF kind = "ok" THEN faults ELSE faults + 1
                  /\ requests' = requests \o [n \in 1..posts_of(kind) |->
                                                   <<fi, idx, field, kind>>]
                  /\ events' = events \o [n \in 1..posts_of(kind) |->
                                               <<"request", fi, idx>>]
                  /\ IF r.raised
                     THEN IF CatchesChunkErrors
                          THEN /\ messages' = Append(messages, <<"metadata_or_output_failed", fi, idx>>)
                               /\ ToNextChunk
                               /\ UNCHANGED llm_meta
                          ELSE /\ pc' = "aborted"
                               /\ UNCHANGED <<messages, fi, idx, llm_meta>>
                     ELSE /\ llm_meta' = Append(llm_meta, <<field, StrVal(r.value)>>)
                          /\ pc' = IF Len(llm_meta') = Len(LLM_FIELDS) THEN "render" ELSE "enrich"
                          /\ UNCHANGED <<messages, fi, idx>>
    /\ UNCHANGED <<pure_vars, frontend, llm_enabled, export_folder, files,
                   output_files, exported, chunker_calls, report>>

\* metadata.update(llm_meta), format_chunk_as_markdown, output_files.append,
\* and the write to the export folder (main.py: to the output folder)
Render ==
    /\ pc = "render"
    /\ metadata' = dict_update(metadata, llm_meta)
    /\ md_content' = format_chunk_as_markdown(chunks[idx], metadata')
    /\ output_files' = Append(output_files, <<out_name_of(files[fi], idx), md_content'>>)
    /\ events' = Append(events, <<"render", fi, idx>>)
    /\ exported' = IF export_folder
                   THEN WriteFile(exported, out_name_of(files[fi], idx), md_content')
                   ELSE exported
    /\ ToNextChunk
    /\ UNCHANGED <<text, chunk_size, chunks, max_keywords_arg, result,
                   frontend, llm_enabled, export_folder, files, llm_meta, faults,
                   messages, requests, chunker_calls, report>>

\* the end of the loop over the files: app.py and app_llm.py show the count
\* of chunks, gradio writes the outputs and the zip, main returns
Report ==
    /\ pc = "next_file"
    /\ fi > Len(files)
    /\ pc' = "done"
    /\ events' = Append(events, <<"report", 0, 0>>)
    /\ report' =
          IF frontend = "main" THEN <<"exit", 0>>
          ELSE IF frontend = "gradio" THEN <<"zip", Len(output_files)>>
          ELSE IF files = <<>> THEN <<"warning", "no files to process">>
          ELSE IF frontend = "app" /\ output_files = <<>>
          THEN <<"warning", "no files were successfully processed">>
          ELSE <<"success", Len(output_files)>>
    /\ exported' = IF frontend = "gradio" THEN WriteAll(exported, output_files)
                   ELSE exported
    /\ UNCHANGED <<pure_vars, frontend, llm_enabled, export_folder, files, fi, idx,
                   llm_meta, faults, output_files, messages, requests, chunker_calls>>

Next ==
    \/ SkipUnsupported
    \/ ReadFile
    \/ ChunkText
    \/ DeriveMetadata
    \/ CallLLM
    \/ Render
    \/ Report

Spec == Init /\ [][Next]_vars

-----------------------------------------------------------------------------
(* Properties of a run *)

\* the metadata read back from a rendered document
HeaderOf(doc) == yaml_load(SplitHeaderAndBody(doc).header)

\* chunk i of file f is behind the run
ChunkLeft(f, i) == pc = "done" \/ fi > f \/ (fi = f /\ idx > i)

\* what the field of a request holds: the stripped content, or the diagnostic
\* string of its failure
ExpectedLLMValue(r) ==
    StrVal(IF r[4] = "ok" THEN strip(LLMContent(r[3]))
           ELSE IF r[4] = "http_error" THEN HTTP_ERROR_STRING
           ELSE ERROR_STRING)

RequestsFor(f, i) == {n \in 1..Len(requests) : requests[n][1] = f /\ requests[n][2] = i}

\* C5: when the request for one enriched field fails, the run does not stop
\* at that chunk; the field holds the diagnostic string of the failure; once
\* the chunk is done each of the three fields has been requested exactly
\* once, and the chunk's rendered document is among the outputs, with every
\* enriched field holding the result of its own request.
C5_EnrichmentFailureIsolated ==
    \A n \in 1..Len(requests) :
        LET r == requests[n]
            f == r[1]
            i == r[2]
        IN  r[4] # "ok" =>
              /\ ~(pc = "aborted" /\ fi = f /\ idx = i)
              /\ (pc = "enrich" /\ fi = f /\ idx = i) =>
                     /\ HasKey(llm_meta, r[3])
                     /\ Get(llm_meta, r[3]) = ExpectedLLMValue(r)
              /\ ChunkLeft(f, i) =>
                     /\ \A k \in 1..Len(LLM_FIELDS) :
                            Cardinality({m \in RequestsFor(f, i) :
                                            requests[m][3] = LLM_FIELDS[k]}) = 1
                     /\ \E j \in 1..Len(output_files) :
                            /\ output_files[j][1] = out_name_of(files[f], i)
                            /\ LET md == HeaderOf(output_files[j][2])
                               IN  /\ md # None
                                   /\ \A m \in RequestsFor(f, i) :
                                         /\ HasKey(md, requests[m][3])
                                         /\ Get(md, requests[m][3]) = ExpectedLLMValue(requests[m])

\* a front-end without try/except has finished a batch in which the second
\* of the three requests of a chunk failed
C5_Witness ==
    /\ pc = "done"
    /\ frontend = "gradio"
    /\ Len(requests) >= 3
    /\ requests[2][4] = "error"
    /\ requests[1][4] = "ok" /\ requests[3][4] = "ok"
    /\ output_files # <<>>
    /\ Get(HeaderOf(output_files[1][2]), "llm_keywords") = StrVal(ERROR_STRING)
    /\ Get(HeaderOf(output_files[1][2]), "llm_section") = StrVal(strip(LLMContent("llm_section")))

\* C6: the batch always completes: a run stops only after every file of the
\* batch has been attempted, and with its outcome reported.
C6_BatchAlwaysCompletes ==
    pc \in {"done", "aborted"} => (pc = "done" /\ fi > Len(files) /\ report # None)

\* the files a front-end reads, in order
FilesRead == SelectSeq(files, LAMBDA f : frontend = "main" => f.ext \in supported_exts)

WordsOf(f) == Len(split(f.content))

\* <<file, chunk number>> of each rendered document expected of a run
ExpectedDocs(k) ==
    Flatten([n \in 1..Len(FilesRead) |->
                [i \in 1..CeilDiv(WordsOf(FilesRead[n]), k) |-> <<FilesRead[n], i>>]])

\* the tags of the chunks of the example: 1200 words, one on a line, chunk
\* size 500
ExampleDocument == [i \in 1..2400 |-> IF i % 2 = 1 THEN "w" ELSE "\n"]
ExampleCounts ==
    LET cs == chunk_text_by_words(ExampleDocument, DEFAULT_CHUNK_SIZE)
    IN  [i \in 1..Len(cs) |->
            LET md == extract_rich_metadata(SampleFacts, cs[i], i, Len(cs))
            IN  <<Get(md, "chunk_number"), Get(md, "total_chunks"), Get(md, "word_count")>>]

\* C7: a run without failures and with chunk size k >= 1 renders, for each
\* file of W words in turn, N = ceil(W / k) documents in order; the i-th has
\* chunk_number i, total_chunks N and word_count k (W - (N-1)*k for the
\* last).  1200 words with chunk size 500: 500, 500, 200.
C7_ChunkCountsAndTags ==
    /\ ExampleCounts = << <<IntVal(1), IntVal(3), IntVal(500)>>,
                          <<IntVal(2), IntVal(3), IntVal(500)>>,
                          <<IntVal(3), IntVal(3), IntVal(200)>> >>
    /\ (pc = "done" /\ faults = 0 /\ chunk_size >= 1) =>
          LET k == chunk_size
              expected == ExpectedDocs(k)
          IN  /\ Len(output_files) = Len(expected)
              /\ \A j \in 1..Len(expected) :
                    LET f == expected[j][1]
                        i == expected[j][2]
                        W == WordsOf(f)
                        N == CeilDiv(W, k)
                        md == HeaderOf(output_files[j][2])
                    IN  /\ output_files[j][1] = out_name_of(f, i)
                        /\ md # None
                        /\ Get(md, "chunk_number") = IntVal(i)
                        /\ Get(md, "total_chunks") = IntVal(N)
                        /\ Get(md, "word_count") = IntVal(IF i < N THEN k ELSE W - (N - 1) * k)

\* a file of 2 * MIN_CHUNK_SIZE + 1 words at chunk size MIN_CHUNK_SIZE:
\* three documents, the last of one word
C7_Witness ==
    /\ pc = "done" /\ faults = 0
    /\ frontend = "gradio"
    /\ chunk_size = MIN_CHUNK_SIZE
    /\ files = <<FileB>>
    /\ Len(output_files) = 3
    /\ Get(HeaderOf(output_files[3][2]), "word_count") = IntVal(1)

\* the keys of a metadata mapping, in order
KeysOf(md) == [n \in 1..Len(md) |-> md[n][1]]

\* the field names of the two layers, in the order of the contract
LocalFieldOrder ==
    <<"file_hash", "original_size", "created_date", "modified_date",
      "processing_time", "chunk_number", "total_chunks", "word_count">>
OptionalFieldOrder == <<"section_heading", "keywords", "first_line", "last_line">>
EnrichedFieldOrder == <<"llm_summary", "llm_keywords", "llm_section">>

\* C11: when app.py, app_llm.py or gradio_app.py merges and renders a chunk,
\* every enriched field is in the merged metadata with its enriched value,
\* every local field that is no enriched field keeps its local value, and
\* the keys of the rendered header are, in this order: the eight local
\* fields, those of section_heading, keywords, first_line, last_line that
\* the chunk has, and the enriched fields.
C11_MergeAndKeyOrder ==
    [][(pc = "render" /\ frontend # "main") =>
          /\ \A n \in 1..Len(llm_meta) :
                /\ HasKey(metadata', llm_meta[n][1])
                /\ Get(metadata', llm_meta[n][1]) = llm_meta[n][2]
          /\ \A n \in 1..Len(metadata) :
                ~HasKey(llm_meta, metadata[n][1]) =>
                    /\ HasKey(metadata', metadata[n][1])
                    /\ Get(metadata', metadata[n][1]) = metadata[n][2]
          /\ llm_enabled => KeysOf(llm_meta) = EnrichedFieldOrder
          /\ KeysOf(HeaderOf(md_content')) =
                LocalFieldOrder
                \o SelectSeq(OptionalFieldOrder, LAMBDA k : HasKey(metadata, k))
                \o (IF llm_enabled THEN EnrichedFieldOrder ELSE <<>>)
      ]_vars

\* an enriched chunk with a heading and a keyword has been rendered: fifteen
\* keys; and an enriched chunk without heading or keyword: thirteen
C11_Witness ==
    /\ llm_enabled
    /\ frontend = "app_llm"
    /\ Len(output_files) >= 2
    /\ KeysOf(HeaderOf(output_files[1][2])) =
          LocalFieldOrder \o OptionalFieldOrder \o EnrichedFieldOrder
    /\ KeysOf(HeaderOf(output_files[2][2])) =
          LocalFieldOrder \o <<"first_line", "last_line">> \o EnrichedFieldOrder
    /\ Get(HeaderOf(output_files[1][2]), "llm_summary") = StrVal(strip(LLMContent("llm_summary")))
    /\ Get(HeaderOf(output_files[1][2]), "keywords") = StrVal(<<"c", "c", "c", "c", "c">>)

\* the place of a step in the order file, chunk, stage: reading and chunking
\* come before the file's first chunk
StageOf(e) ==
    CASE e[1] \in {"skip", "read", "read_failed"} -> 0
      [] e[1] \in {"chunk", "chunk_failed"} -> 1
      [] e[1] \in {"meta", "meta_failed"} -> 2
      [] e[1] = "request" -> 3
      [] e[1] = "render" -> 4
      [] OTHER -> 5
ChunkOf(e) == IF StageOf(e) <= 1 THEN 0 ELSE e[3]
ComesBefore(a, b) ==
    \/ a[2] < b[2]
    \/ a[2] = b[2] /\ ChunkOf(a) < ChunkOf(b)
    \/ a[2] = b[2] /\ ChunkOf(a) = ChunkOf(b) /\ StageOf(a) < StageOf(b)
    \/ a[2] = b[2] /\ ChunkOf(a) = ChunkOf(b) /\ a[1] = "request" /\ b[1] = "request"
FileSteps == SelectSeq(events, LAMBDA e : e[1] # "report")
HappenedBefore(n, e) == \E m \in 1..(n - 1) : FileSteps[m] = e
\* chunk i of file f is through: rendered, or its failure was caught
ChunkFinishedBefore(n, f, i) ==
    HappenedBefore(n, <<"render", f, i>>) \/ HappenedBefore(n, <<"meta_failed", f, i>>)

\* C12: the steps of a run are ordered by file, then by chunk, then by stage
\* (local metadata, enrichment requests, rendering); a chunk is rendered only
\* after its local metadata and, with enrichment on, after its three
\* requests; a chunk is processed only after its file was read and chunked;
\* a file is read only after every chunk of the files before it is through.
C12_StagesInOrder ==
    /\ \A n \in 1..Len(FileSteps) : \A m \in 1..(n - 1) :
          ComesBefore(FileSteps[m], FileSteps[n])
    /\ \A n \in 1..Len(FileSteps) :
          LET e == FileSteps[n]
          IN  /\ e[1] \in {"request", "render"} => HappenedBefore(n, <<"meta", e[2], e[3]>>)
              /\ (e[1] = "render" /\ llm_enabled) =>
                    /\ n > Len(LLM_FIELDS)
                    /\ \A k \in 1..Len(LLM_FIELDS) :
                          FileSteps[n - k] = <<"request", e[2], e[3]>>
              /\ (e[1] = "request") => llm_enabled
              /\ e[1] \in {"meta", "meta_failed"} =>
                    /\ HappenedBefore(n, <<"read", e[2], 0>>)
                    /\ \E total \in e[3]..Len(files[e[2]].content) :
                          HappenedBefore(n, <<"chunk", e[2], total>>)
              /\ e[1] \in {"skip", "read", "read_failed"} =>
                    \A m \in 1..(n - 1) :
                       FileSteps[m][1] = "chunk" =>
                          \A i \in 1..FileSteps[m][3] :
                             ChunkFinishedBefore(n, FileSteps[m][2], i)

\* a finished run with enrichment: three chunks of one file rendered one
\* after the other, each after its three requests, then the next file read
C12_Witness ==
    /\ pc = "done"
    /\ llm_enabled
    /\ \E f \in 1..Len(files) : \E n \in 1..Len(events) :
          /\ n + 16 <= Len(events)
          /\ events[n] = <<"chunk", f, 3>>
          /\ \A i \in 1..3 :
                /\ events[n + 5 * i - 4] = <<"meta", f, i>>
                /\ events[n + 5 * i - 3] = <<"request", f, i>>
                /\ events[n + 5 * i] = <<"render", f, i>>
          /\ events[n + 16] = <<"read", f + 1, 0>>

\* the characters of PromptAlphabet that are printable ASCII, newline, tab
\* or carriage return
AllowedInPrompt == {"~", " "} \cup {"\n", "\t", "\r"}
\* the characters of s[lo..hi] that are allowed, in their order
RECURSIVE KeptOfRange(_, _, _)
KeptOfRange(s, lo, hi) ==
    IF lo > hi THEN <<>>
    ELSE IF lo = hi THEN (IF s[lo] \in AllowedInPrompt THEN <<s[lo]>> ELSE <<>>)
    ELSE LET mid == (lo + hi) \div 2
         IN  KeptOfRange(s, lo, mid) \o KeptOfRange(s, mid + 1, hi)
PromptInstructions == <<SUMMARY_INSTRUCTION, KEYWORDS_INSTRUCTION, SECTION_INSTRUCTION>>
\* what follows the instruction and the blank line in prompt n
PromptBody(n) == SubSeq(result[n], Len(PromptInstructions[n]) + 3, Len(result[n]))

ChunksTouched ==
    {<<requests[n][1], requests[n][2]>> : n \in 1..Len(requests)}
    \cup {<<events[n][2], events[n][3]>> : n \in {k \in 1..Len(events) : events[k][1] = "render"}}
RequestsInOrder(f, i) == SelectSeq(requests, LAMBDA r : r[1] = f /\ r[2] = i)
Rendered(f, i) == \E n \in 1..Len(events) : events[n] = <<"render", f, i>>

\* C14: the requests sent for one chunk are, in order, one for the summary,
\* one for the keywords, one for the section: never more than three, never
\* one field twice, whether or not a request failed; a chunk rendered with
\* enrichment on has had exactly three; with enrichment off none is sent.
C14_ThreeRequestsNoRetry ==
    /\ ~llm_enabled => requests = <<>>
    /\ \A c \in ChunksTouched :
          LET rs == RequestsInOrder(c[1], c[2])
          IN  /\ Len(rs) <= 3
              /\ \A k \in 1..Len(rs) : rs[k][3] = EnrichedFieldOrder[k]
              /\ (llm_enabled /\ Rendered(c[1], c[2])) => Len(rs) = 3

\* a chunk was rendered after its keywords request failed: three requests
\* were sent for it, the failed one once
C14_Witness ==
    \E c \in ChunksTouched :
        /\ Rendered(c[1], c[2])
        /\ Len(RequestsInOrder(c[1], c[2])) = 3
        /\ RequestsInOrder(c[1], c[2])[2][4] = "error"
        /\ RequestsInOrder(c[1], c[2])[3][4] = "ok"

\* C15: once deriving the local metadata of chunk i of a file has failed,
\* no local metadata is derived, no request is sent and no document is
\* rendered for chunk i or a later chunk of that file; the documents of its
\* chunks before i stay in the outputs; and the run does not stop before
\* every later file has been attempted.
C15_MetadataFailureFatalForFile ==
    \A n \in 1..Len(events) :
        events[n][1] = "meta_failed" =>
            LET f == events[n][2]
                i == events[n][3]
            IN  /\ \A m \in (n + 1)..Len(events) :
                      ~ /\ events[m][1] \in {"meta", "meta_failed", "request", "render"}
                        /\ events[m][2] = f
                        /\ events[m][3] >= i
                /\ \A k \in 1..(i - 1) :
                      Rendered(f, k) =>
                         \E d \in 1..Len(output_files) :
                            output_files[d][1] = out_name_of(files[f], k)
                /\ pc \in {"done", "aborted"} =>
                      \A g \in (f + 1)..Len(files) :
                         \E m \in (n + 1)..Len(events) :
                            /\ events[m][1] \in {"skip", "read", "read_failed"}
                            /\ events[m][2] = g

\* app.py: the local metadata of chunk 1 failed and chunk 2 of the same file
\* was rendered afterwards
C15_Witness ==
    /\ frontend = "app"
    /\ \E f \in 1..Len(files) : \E n \in 1..Len(events) :
          /\ events[n] = <<"meta_failed", f, 1>>
          /\ \E m \in (n + 1)..Len(events) : events[m] = <<"render", f, 2>>

\* the names of the files written
StoredNames == {e[1] : e \in exported}
\* the run stores its documents: an export folder is given (app, app_llm),
\* or the front-end always writes them (main, gradio)
StoresDocuments == export_folder \/ frontend \in {"main", "gradio"}

\* C16: no two rendered documents of a run have the same name, and once the
\* run is over as many files are stored as documents were rendered.
C16_ArtifactNamesDistinct ==
    /\ \A i, j \in 1..Len(output_files) :
          i # j => output_files[i][1] # output_files[j][1]
    /\ (pc = "done" /\ StoresDocuments) =>
          Cardinality(StoredNames) = Len(output_files)

\* a.txt and a.pdf in one run: the first chunk of each is named
\* a_chunk1.txt, and the stored file holds the later one
C16_Witness ==
    /\ pc = "done"
    /\ StoresDocuments
    /\ files = <<FileA, FileB>>
    /\ Len(output_files) >= 2
    /\ output_files[1][1] = output_files[2][1]
    /\ output_files[1][2] # output_files[2][2]
    /\ <<output_files[2][1], output_files[2][2]>> \in exported
    /\ <<output_files[1][1], output_files[1][2]>> \notin exported
    /\ Cardinality(exported) < Len(output_files)

\* C10: chunk_text_by_words is never called with a chunk size outside
\* MIN_CHUNK_SIZE..MAX_CHUNK_SIZE.
C10_ChunkSizeValidated ==
    \A k \in chunker_calls : MIN_CHUNK_SIZE <= k /\ k <= MAX_CHUNK_SIZE

====
